---- MODULE Spec2Model ----
(***************************************************************************)
(* Group movement behaviour of lib/movement.hpp (FCPP monitoring           *)
(* exercises): group_walk, reach_on_streets, switcher and the spawn_group   *)
(* option.                                                                 *)
(*                                                                         *)
(* Every device runs group_walk once per round.  The runtime executes the  *)
(* devices of a round one after the other, in any order, and then lets     *)
(* simulated time advance by one period (Tick), which moves every device   *)
(* by the velocity its last follow_target set.                             *)
(*                                                                         *)
(* Reals are kept as integers (metres, metres per second).  The map is an  *)
(* L-shaped street whose waypoints lie on a lattice, and the speed is a    *)
(* multiple of the lattice cell, so that every norm and every step the     *)
(* model takes is an exact integer.                                        *)
(***************************************************************************)
EXTENDS Integers, Sequences, FiniteSets, TLC

VARIABLES
    pos,          \* node.position() of every device
    vel,          \* node.velocity() of every device, set by follow_target
    speed,        \* node.storage(speed{})
    radius,       \* node.storage(offset{})
    firstSlot,    \* export of old(CALL, true, false), line 58
    targetSlot,   \* export of old(CALL, target, ...), line 64
    offsetSlot,   \* export of constant(CALL, t), line 71
    sound,        \* the oracle of this run answers every path request
    scope,        \* stack trace the exports of a device were filed under
    ran,          \* devices that already executed the current round
    round,        \* number of completed rounds
    started,      \* history: devices that executed at least one round
    policyLog,    \* history: the policies every device has executed so far
    firstOffset,  \* history: the offset a follower used in its first round
    last,         \* history: what the most recent group_walk did
    keyOf,        \* history: the key of the last round of a device
    committed,    \* history: the positions at the end of the previous round
    uidA, uidB,   \* inputs of the group assignment check
    assigned,     \* result of the group assignment check
    group_id,     \* template argument of spawn_group
    group_size,   \* template argument of spawn_group
    built,        \* whether the spawn_group option was accepted, once built
    spawned       \* identifiers of the devices spawned so far, in order

vars == <<pos, vel, speed, radius, firstSlot, targetSlot, offsetSlot, scope,
          sound, ran, round, started, policyLog, firstOffset, last, keyOf, committed,
          uidA, uidB, assigned, group_id, group_size, built, spawned>>

spawnVars == <<group_id, group_size, built, spawned>>

walkVars == <<pos, vel, speed, radius, firstSlot, targetSlot, offsetSlot,
              scope, sound, ran, round, started, policyLog, firstOffset, last, keyOf,
              committed>>

(***************************************************************************)
(* Program constants.                                                      *)
(***************************************************************************)
max_group_size == 100
hi_x == 1200
hi_y == 800
period == 1

(***************************************************************************)
(* Bounds of the model.                                                    *)
(***************************************************************************)
MaxUid == 299        \* identifiers the group assignment is checked on
MaxGroupId == 2      \* largest group_id a configuration is built with
MaxRounds == 2       \* rounds the runtime executes
NumFollowers == 1    \* followers spawned after the leader
GroupId == 2         \* group_id of the spawned group

\* Lattice cell: the waypoints of the map are multiples of it.
Cell == hi_y \div 2

\* group_speed of the spawned group, in km/h (Cell metres per second).
GroupSpeeds == {(Cell * 3600) \div 1000}

\* group_radius of the spawned group.
GroupRadii == {0, Cell}

(***************************************************************************)
(* Vectors.                                                                *)
(***************************************************************************)
make_vec(x, y) == <<x, y>>

VAdd(a, b) == <<a[1] + b[1], a[2] + b[2]>>

VSub(a, b) == <<a[1] - b[1], a[2] - b[2]>>

Abs(n) == IF n < 0 THEN -n ELSE n

\* Integer square root (floor).
ISqrt(n) == CHOOSE r \in 0..(hi_x + hi_y) * 2 : r * r <= n /\ n < (r + 1) * (r + 1)

\* Euclidean norm; exact on axis-aligned vectors.
norm(v) ==
    IF v[1] = 0 THEN Abs(v[2])
    ELSE IF v[2] = 0 THEN Abs(v[1])
    ELSE ISqrt(v[1] * v[1] + v[2] * v[2])

\* A vector whose coordinates may be not-a-number: nan0/nan1 flag the
\* coordinates that are NaN, v holds the coordinates that are not.
Real(p) == [nan0 |-> FALSE, nan1 |-> FALSE, v |-> p]

isnan(t, i) == IF i = 0 THEN t.nan0 ELSE t.nan1

\* Optional values: <<>> is "no value", <<x>> holds x.
None == <<>>

Some(x) == <<x>>

(***************************************************************************)
(* The spawned group: spawn_group<GroupId, NumFollowers + 1, ...>.         *)
(***************************************************************************)
\* A faulty sequence: the step is added before the first value is given out,
\* without starting one step early.
arithmetic_sequence_late(start, step, k) == start + step * (k + 1)

\* uid of the k-th spawned device: arithmetic sequence from
\* max_group_size * group_id with step 1.
arithmetic_sequence(start, step, k) == start + step * k

Devices == {arithmetic_sequence(max_group_size * GroupId, 1, k) : k \in 0..NumFollowers}

\* Line 108 declares option_assert for every condition, line 111 defines it
\* for true only: the option exists exactly when the condition holds.
option_assert(condition) == condition

\* A faulty bound of line 118: a group of max_group_size devices is allowed.
GroupSizeAllowedUpTo(size) == 0 < size /\ size <= max_group_size

\* Line 118: group size allowed between 1 and 99.
GroupSizeAllowed(size) == 0 < size /\ size < max_group_size

\* Line 117: the group ID should not be negative.
GroupIdAllowed(id) == id >= 0

\* Lines 116-118: the option list of spawn_group can be built.
spawn_group_accepts(id, size) ==
    option_assert(GroupIdAllowed(id)) /\ option_assert(GroupSizeAllowed(size))

\* speed storage: the group speed converted from km/h to m/s.
SpeedOf(group_speed) == (group_speed * 1000) \div 3600

\* Initial position of a device: a point of the simulation area off the
\* street, so that snapping to the street shows.
rectangle_d == {make_vec(Cell, Cell)}

(***************************************************************************)
(* The spatial oracle (node.net): an L-shaped street from (0,0) along the  *)
(* x axis to (hi_x,0) and up to (hi_x,hi_y).                               *)
(***************************************************************************)
Walkable ==
    {make_vec(i * Cell, 0) : i \in 0..(hi_x \div Cell)}
        \cup {make_vec(hi_x, j * Cell) : j \in 0..(hi_y \div Cell)}

Dist2(a, b) == (a[1] - b[1]) * (a[1] - b[1]) + (a[2] - b[2]) * (a[2] - b[2])

\* The points the model asks the oracle about: the lattice points of the
\* simulation area and of a margin of one cell around it.
Lattice ==
    {make_vec(i * Cell, j * Cell) : i \in -1..(hi_x \div Cell) + 1,
                                    j \in -1..(hi_y \div Cell) + 1}

\* The map: the nearest walkable point of every point.
ClosestTable ==
    [p \in Lattice |->
        CHOOSE w \in Walkable : \A u \in Walkable : Dist2(p, w) <= Dist2(p, u)]

\* Nearest walkable point.
closest_space(p) == ClosestTable[p]

\* The map: the nearest point of every point that is not walkable.
ObstacleTable ==
    [p \in Lattice |->
        CHOOSE o \in Lattice \ Walkable :
            \A u \in Lattice \ Walkable : Dist2(p, o) <= Dist2(p, u)]

\* Nearest obstacle.
closest_obstacle(p) == ObstacleTable[p]

\* First waypoint of the path between two points; the oracle may fail and
\* answer not-a-number in either coordinate (nan0, nan1).
path_to(from, to, nan0, nan1) ==
    LET corner == make_vec(hi_x, 0)
        sameStreet == \/ from[2] = 0 /\ to[2] = 0
                      \/ from[1] = hi_x /\ to[1] = hi_x
    IN  [nan0 |-> nan0, nan1 |-> nan1,
         v |-> IF sameStreet THEN to ELSE corner]

\* Whether the oracle's answer has a not-a-number coordinate; no answer is
\* drawn in a round that does not ask the oracle for a path, and a sound
\* oracle never fails.
OracleFailure(unasked) == IF unasked \/ sound THEN {FALSE} ELSE BOOLEAN

\* Values random_rectangle_target may draw in the rectangle [lo, hi]: three
\* of its corners.
random_rectangle_target(lo, hi) == {lo, hi, make_vec(lo[1], hi[2])}

(***************************************************************************)
(* Library primitives.                                                     *)
(***************************************************************************)
\* A faulty old: the previous round is forgotten.
old_forgetful(slot, f0) == f0

\* node.stack_trace where the program of a round starts.
Root == <<>>

\* A faulty trace_key: the key is left out of the stack trace.
trace_key_dropped(stack_trace, key) == stack_trace

\* Line 83: internal::trace_key pushes the key on the stack trace for as
\* long as f runs.
trace_key(stack_trace, key) == Append(stack_trace, key)

\* The export of the previous round that a call point sees: the exports of
\* a round are filed under the stack trace of their call point, and a call
\* point finds only what was filed under its own stack trace.
Export(slot, filed, stack_trace) == IF filed = stack_trace THEN slot ELSE None

\* old(CALL, f0, ...): the value exported at this call point in the previous
\* round, f0 when there is none.
old(slot, f0) == IF slot = None THEN f0 ELSE slot[1]

\* follow_target: moves towards t with speed at most max_v, reaching it
\* when it is within max_v * per; returns the distance from t.
follow_target(p, t, max_v, per) ==
    LET delta == VSub(t, p)
        dist == norm(delta)
    IN  [dist |-> dist,
         vel |-> IF dist <= max_v * per
                 THEN <<delta[1] \div per, delta[2] \div per>>
                 ELSE <<(delta[1] * max_v) \div dist, (delta[2] * max_v) \div dist>>]

(***************************************************************************)
(* reach_on_streets (lines 37-45).                                         *)
(***************************************************************************)
\* A faulty test of line 40: only the first coordinate is looked at.
DegenerateFirst(t) == isnan(t, 0)

\* Line 40: the path is degenerate.
Degenerate(t) == isnan(t, 0) \/ isnan(t, 1)

\* A faulty test of line 42: the lower bounds are forgotten.
OutOfAreaUpper(target) == target[1] > 1200 \/ target[2] > 800

\* Line 42: the target is out of the simulation area.
OutOfArea(target) ==
    target[1] < 0 \/ target[2] < 0 \/ target[1] > 1200 \/ target[2] > 800

\* A faulty waypoint: the path of the oracle, without the fallbacks.
WaypointOfPath(p, target, t) == t

\* The waypoint handed to follow_target (lines 38-43).
Waypoint(p, target, t) ==
    LET t1 == IF Degenerate(t) THEN Real(p) ELSE t
    IN  IF OutOfArea(target) THEN Real(p) ELSE t1

\* A faulty request: the target is handed to the oracle as it is.
PathRequestUnsnapped(p, target) == [from |-> p, to |-> target]

\* Line 38: the two ends of the path asked of the oracle, node.position()
\* and closest_space(target).
PathRequest(p, target) == [from |-> p, to |-> closest_space(target)]

\* Line 39: the text of a tuple, kept as the sequence of its printed items.
to_string(tuple) == tuple

\* Result of reach_on_streets at position p: the oracle's path, the
\* waypoint followed, the text written to the debug storage of the device,
\* the velocity set and the distance returned.
reach_on_streets(p, target, max_v, per, nan0, nan1) ==
    LET q == PathRequest(p, target)
        t == path_to(q.from, q.to, nan0, nan1)
        w == Waypoint(p, target, t)
        f == follow_target(p, w.v, max_v, per)
    IN  [from |-> q.from, to |-> q.to, path |-> t, wp |-> w,
         debug |-> to_string(<<"sp:", closest_space(p), "ob:", closest_obstacle(p),
                               "target:", target, "path:", t>>),
         vel |-> f.vel, dist |-> f.dist]

(***************************************************************************)
(* group_walk (lines 49-77).                                               *)
(***************************************************************************)
low == make_vec(0, 0)

\* A faulty corner of line 53: one cell beyond the simulation area.
hi_beyond == make_vec(hi_x + Cell, hi_y)

hi == make_vec(hi_x, hi_y)

\* A faulty group assignment: the index of the group instead of its first
\* identifier.
leader_of_index(uid) == uid \div max_group_size

\* Line 55: the leader of the group of a device.
leader_of(uid) == uid - (uid % max_group_size)

\* A faulty dispatch: the test of line 59 inverted.
IsLeaderInverted(uid, leader) == uid # leader

\* Line 59: the device is the leader of its group.
IsLeader(uid, leader) == uid = leader

\* A faulty export: old(CALL, true, true).
first_round_export_true == TRUE

\* Line 58: the value old(CALL, true, false) exports for the next round.
first_round_export == FALSE

\* Faulty exports of line 66: the target is always replaced, never replaced.
RetargetAlways(dist, t, target, max_v) == target

RetargetNever(dist, t, target, max_v) == t

\* Line 66: the target the leader exports for the next round.
Retarget(dist, t, target, max_v) == IF dist > max_v * period THEN t ELSE target

\* A faulty constant: the value of t in the current round.
constant_resampled(slot, t) == t

\* Line 71: constant(CALL, t), the value of t in the first round.
constant(slot, t) == old(slot, t)

\* What a round records about itself (history only).
Record(d, policy, first_round, sample, target, offset, leaderPos, reach) ==
    [dev |-> d, leader |-> leader_of(d), policy |-> policy,
     first |-> first_round, wasStarted |-> d \in started,
     posBefore |-> pos[d], sample |-> sample, prevTarget |-> targetSlot[d],
     target |-> target, offset |-> offset, leaderPos |-> leaderPos,
     reach |-> reach]

\* A faulty start: the leader is left where it was spawned.
LeaderStartKept(p, first_round) == p

\* Lines 60-61: where the leader stands when it starts to walk; in the first
\* round it is moved to the closest walkable point.
LeaderStart(p, first_round) == IF first_round THEN closest_space(p) ELSE p

\* A faulty start: the follower is placed on its target, walkable or not.
FollowerStartRaw(t) == t

\* Line 73: where the first round places a follower.
FollowerStart(t) == closest_space(t)

\* A faulty assignment: the position of the leader of the group is written.
SetPositionOfLeader(d, p) == [pos EXCEPT ![leader_of(d)] = p]

\* Lines 61 and 73: node.position() = p, executed by device d.
SetPosition(d, p) == [pos EXCEPT ![d] = p]

\* A faulty lookup: the position of the device itself.
LeaderPositionOwn(d, leader) == pos[d]

\* Line 71: node.net.node_at(leader).position(), as device d reads it.
LeaderPosition(d, leader) == pos[leader]

\* A faulty target: the offset alone.
FollowerTargetOffset(c, leaderPos) == c

\* Line 71: the target of a follower.
FollowerTarget(c, leaderPos) == VAdd(c, leaderPos)

\* A faulty default of line 64: the origin instead of the sampled target.
InitialTargetOrigin(target) == make_vec(0, 0)

\* Line 64: the value old(CALL, target, ...) starts from when the previous
\* round exported none.
InitialTarget(target) == target

\* Lines 60-67: leaders just walk randomly.
LeaderPolicy(d, first_round, max_v, targetExport) ==
    \E target \in random_rectangle_target(low, hi),
       nan0 \in OracleFailure(FALSE), nan1 \in OracleFailure(FALSE) :
        LET p == LeaderStart(pos[d], first_round)
            t == old(targetExport, InitialTarget(target))
            r == reach_on_streets(p, t, max_v, period, nan0, nan1)
        IN  /\ pos' = SetPosition(d, p)
            /\ vel' = [vel EXCEPT ![d] = r.vel]
            /\ targetSlot' = [targetSlot EXCEPT ![d] = Some(Retarget(r.dist, t, target, max_v))]
            /\ last' = Some(Record(d, "leader", first_round, target, t, None, None, Some(r)))
            /\ policyLog' = [policyLog EXCEPT ![d] = @ \cup {"leader"}]
            /\ UNCHANGED <<offsetSlot, firstOffset>>

\* Lines 69-75: followers chase the leader up to an offset.
FollowerPolicy(d, leader, first_round, max_v, rad, offsetExport) ==
    \E t0 \in random_rectangle_target(make_vec(-rad, -rad), make_vec(rad, rad)),
       nan0 \in OracleFailure(first_round), nan1 \in OracleFailure(first_round) :
        LET c == constant(offsetExport, t0)
            lp == LeaderPosition(d, leader)
            t == FollowerTarget(c, lp)
            r == reach_on_streets(pos[d], t, max_v, period, nan0, nan1)
        IN  /\ offsetSlot' = [offsetSlot EXCEPT ![d] = Some(c)]
            /\ firstOffset' = [firstOffset EXCEPT
                                 ![d] = IF d \in started THEN @ ELSE Some(c)]
            /\ IF first_round
               THEN /\ pos' = SetPosition(d, FollowerStart(t))
                    /\ vel' = vel
                    /\ last' = Some(Record(d, "follower", first_round, t0, t,
                                           Some(c), Some(lp), None))
               ELSE /\ pos' = pos
                    /\ vel' = [vel EXCEPT ![d] = r.vel]
                            /\ last' = Some(Record(d, "follower", first_round, t0, t,
                                           Some(c), Some(lp), Some(r)))
            /\ policyLog' = [policyLog EXCEPT ![d] = @ \cup {"follower"}]
            /\ UNCHANGED targetSlot

\* One round of device d, given the exports of its previous round that its
\* call points see.
group_walk_on(d, firstExport, targetExport, offsetExport) ==
    LET leader == leader_of(d)
        max_v == speed[d]
        rad == radius[d]
        first_round == old(firstExport, TRUE)
    IN  /\ d \notin ran
        /\ round < MaxRounds
        /\ firstSlot' = [firstSlot EXCEPT ![d] = Some(first_round_export)]
        /\ IF IsLeader(d, leader)
           THEN LeaderPolicy(d, first_round, max_v, targetExport)
           ELSE FollowerPolicy(d, leader, first_round, max_v, rad, offsetExport)
        /\ ran' = ran \cup {d}
        /\ started' = started \cup {d}
        /\ UNCHANGED <<speed, radius, sound, round, committed, uidA, uidB,
                       assigned, spawnVars>>

\* One round of device d, run with the given stack trace.
group_walk(d, stack_trace) ==
    /\ group_walk_on(d, Export(firstSlot[d], scope[d], stack_trace),
                        Export(targetSlot[d], scope[d], stack_trace),
                        Export(offsetSlot[d], scope[d], stack_trace))
    /\ scope' = [scope EXCEPT ![d] = stack_trace]

\* Lines 82-85: switcher(CALL, key, f) with f the round of device d; f runs
\* once, with the key on the stack trace, and its result is returned.
switcher(d, key) ==
    /\ group_walk(d, trace_key(Root, key))
    /\ keyOf' = [keyOf EXCEPT ![d] = Some(key)]

\* The round of device d run directly, as the main program of the device.
MAIN(d) ==
    /\ group_walk(d, Root)
    /\ UNCHANGED keyOf

\* The round ends: simulated time advances by one period and every device
\* moves by its velocity.
Tick ==
    /\ ran = Devices
    /\ round < MaxRounds
    /\ pos' = [d \in Devices |-> VAdd(pos[d], <<vel[d][1] * period, vel[d][2] * period>>)]
    /\ ran' = {}
    /\ round' = round + 1
    /\ last' = None
    /\ committed' = pos'
    /\ UNCHANGED <<vel, speed, radius, firstSlot, targetSlot, offsetSlot, scope, sound,
                   started, keyOf,
                   policyLog, firstOffset, uidA, uidB, assigned, spawnVars>>

\* The devices as spawn_group creates them (lines 115-127).
InitWalk ==
    /\ pos \in [Devices -> rectangle_d]
    /\ vel = [d \in Devices |-> make_vec(0, 0)]
    /\ \E group_speed \in GroupSpeeds : speed = [d \in Devices |-> SpeedOf(group_speed)]
    /\ \E group_radius \in GroupRadii : radius = [d \in Devices |-> group_radius]
    /\ firstSlot = [d \in Devices |-> None]
    /\ targetSlot = [d \in Devices |-> None]
    /\ offsetSlot = [d \in Devices |-> None]
    /\ scope = [d \in Devices |-> Root]
    /\ ran = {}
    /\ round = 0
    /\ started = {}
    /\ policyLog = [d \in Devices |-> {}]
    /\ firstOffset = [d \in Devices |-> None]
    /\ last = None
    /\ keyOf = [d \in Devices |-> None]
    /\ committed = pos

\* The group the devices were spawned from: an accepted configuration, all
\* of whose devices exist.
InitGroup ==
    /\ group_id = GroupId
    /\ group_size = NumFollowers + 1
    /\ built = Some(spawn_group_accepts(group_id, group_size))
    /\ spawned = [k \in 1..group_size |->
                    arithmetic_sequence(max_group_size * group_id, 1, k - 1)]

Init ==
    /\ InitWalk
    /\ InitGroup
    /\ sound = FALSE
    /\ uidA = 0
    /\ uidB = 0
    /\ assigned = None

Next ==
    \/ \E d \in Devices : MAIN(d)
    \/ Tick

Spec == Init /\ [][Next]_vars

(***************************************************************************)
(* The group assignment on its own: leader_of applied to any two           *)
(* identifiers.                                                            *)
(***************************************************************************)
InitAssign ==
    /\ InitWalk
    /\ InitGroup
    /\ sound = FALSE
    /\ uidA \in 0..MaxUid
    /\ uidB \in 0..MaxUid
    /\ assigned = None

Assign ==
    /\ assigned = None
    /\ assigned' = Some([a |-> leader_of(uidA), b |-> leader_of(uidB),
                         aa |-> leader_of(leader_of(uidA))])
    /\ UNCHANGED <<walkVars, uidA, uidB, spawnVars>>

NextAssign == Assign

SpecAssign == InitAssign /\ [][NextAssign]_vars

(***************************************************************************)
(* The rounds run under switcher (lines 81-85), with a key that the caller *)
(* is free to change from one round to the next.  The devices of a round   *)
(* are executed in the order of their identifiers, under the same key, and *)
(* the oracle answers every path request.                                  *)
(***************************************************************************)
Keys == BOOLEAN

InitSwitch ==
    /\ InitWalk
    /\ InitGroup
    /\ sound = TRUE
    /\ uidA = 0
    /\ uidB = 0
    /\ assigned = None

Switched(d, key) ==
    /\ \A e \in Devices \ ran : d <= e
    /\ \A e \in ran : keyOf[e] = Some(key)
    /\ switcher(d, key)

NextSwitch ==
    \/ \E d \in Devices, key \in Keys : Switched(d, key)
    \/ Tick

SpecSwitch == InitSwitch /\ [][NextSwitch]_vars

(***************************************************************************)
(* The spawn_group option on its own (lines 114-127): a configuration is   *)
(* built, and if it is accepted its devices are spawned one by one.        *)
(***************************************************************************)
InitSpawn ==
    /\ InitWalk
    /\ sound = FALSE
    /\ uidA = 0
    /\ uidB = 0
    /\ assigned = None
    /\ group_id \in -1..MaxGroupId
    /\ group_size \in -1..max_group_size + 1
    /\ built = None
    /\ spawned = <<>>

\* Lines 116-118: the option list is built, or fails to build.
Build ==
    /\ built = None
    /\ built' = Some(spawn_group_accepts(group_id, group_size))
    /\ UNCHANGED <<walkVars, uidA, uidB, assigned, group_id, group_size, spawned>>

\* Lines 120-122: one of the group_size spawn events; the identifiers follow
\* the arithmetic sequence from max_group_size * group_id with step 1.
Spawn ==
    /\ built = Some(TRUE)
    /\ Len(spawned) < group_size
    /\ spawned' = Append(spawned, arithmetic_sequence(max_group_size * group_id,
                                                      1, Len(spawned)))
    /\ UNCHANGED <<walkVars, uidA, uidB, assigned, group_id, group_size, built>>

NextSpawn == Build \/ Spawn

SpecSpawn == InitSpawn /\ [][NextSpawn]_vars

(***************************************************************************)
(* Properties.                                                             *)
(***************************************************************************)
\* The round the history describes, when there is one.
Ran == last # None

L == last[1]

InRect(v, lo, up) == lo[1] <= v[1] /\ v[1] <= up[1] /\ lo[2] <= v[2] /\ v[2] <= up[2]

\* C1 as stated: leader(id) = id - (id mod 100) satisfies
\* 0 <= id - leader(id) < 100 and is idempotent, two identifiers of the same
\* block of 100 derive the same leader, and 250 and 251 derive the leader 250.
C1_Original ==
    assigned # None =>
        /\ 0 <= uidA - assigned[1].a
        /\ uidA - assigned[1].a < 100
        /\ assigned[1].aa = assigned[1].a
        /\ (uidA \div 100 = uidB \div 100 => assigned[1].a = assigned[1].b)
        /\ (uidA = 250 /\ uidB = 251 => assigned[1].a = 250 /\ assigned[1].b = 250)

\* C1 amended: leader(id) = id - (id mod 100) satisfies
\* 0 <= id - leader(id) < 100 and is idempotent, two identifiers of the same
\* block of 100 derive the same leader, which is its own leader; 250 and 251
\* derive the leader 200, and 250 is not its own leader.
C1_GroupAssignment ==
    assigned # None =>
        /\ 0 <= uidA - assigned[1].a
        /\ uidA - assigned[1].a < 100
        /\ assigned[1].aa = assigned[1].a
        /\ (uidA \div 100 = uidB \div 100 => assigned[1].a = assigned[1].b)
        /\ (uidA = 250 /\ uidB = 251 => assigned[1].a = 200 /\ assigned[1].b = 200)
        /\ (uidA = 250 => assigned[1].a # uidA)

\* C1 witness: the leaders of 250 and 251 have been derived.
C1_Witness ==
    assigned # None /\ uidA = 250 /\ uidB = 251 /\ assigned[1].a = assigned[1].b

\* C2: every round of a device executes exactly one of the leader policy and
\* the follower policy, the leader policy if and only if the identifier is
\* the derived leader identifier, and the same policy in every round.
C2_Dispatch ==
    /\ Ran => /\ (L.policy = "leader") <=> (L.dev = L.dev - (L.dev % 100))
              /\ (L.policy = "follower") <=> (L.dev # L.dev - (L.dev % 100))
    /\ \A d \in Devices :
        /\ policyLog[d] \subseteq {IF d = d - (d % 100) THEN "leader" ELSE "follower"}
        /\ d \in started => /\ policyLog[d] # {}
                            /\ (targetSlot[d] # None) <=> ("leader" \in policyLog[d])
                            /\ (offsetSlot[d] # None) <=> ("follower" \in policyLog[d])

\* C2 witness: every device has executed two rounds, the last one a follower.
C2_Witness ==
    /\ Ran /\ L.policy = "follower" /\ L.wasStarted
    /\ ran = Devices
    /\ \E d \in Devices : policyLog[d] = {"leader"}

\* C3: the offset a follower uses lies in [-radius,radius]x[-radius,radius]
\* and is, in every round, the offset of its first round, whatever the round
\* samples.
C3_StickyOffset ==
    /\ Ran /\ L.policy = "follower" =>
        /\ firstOffset[L.dev] # None
        /\ L.offset = firstOffset[L.dev]
        /\ (~L.wasStarted => L.offset = Some(L.sample))
    /\ \A d \in Devices :
        /\ offsetSlot[d] = firstOffset[d]
        /\ firstOffset[d] # None =>
            InRect(firstOffset[d][1], make_vec(-radius[d], -radius[d]),
                   make_vec(radius[d], radius[d]))

\* C3 witness: a follower's later round drew a sample that is not its offset.
C3_Witness ==
    Ran /\ L.policy = "follower" /\ L.wasStarted /\ L.offset # Some(L.sample)

\* C4: first_round is true in the first round of a device and false in every
\* later round, for leaders and followers.
C4_FirstRound ==
    /\ Ran => (L.first <=> ~L.wasStarted)
    /\ \A d \in started : firstSlot[d] = Some(FALSE)

\* C4 witness: a leader and a follower have both executed a later round.
C4_Witness ==
    /\ Ran /\ L.wasStarted /\ ~L.first
    /\ ran = Devices /\ round >= 1

\* The position of a device once the round is over and the period elapsed.
PosAfter(d) == VAdd(pos[d], <<vel[d][1] * period, vel[d][2] * period>>)

\* The round invoked reach_on_streets; R is what the invocation did.
Invoked == Ran /\ L.reach # None

R == L.reach[1]

PathIsNaN == R.path.nan0 \/ R.path.nan1

TargetOutside == ~InRect(L.target, <<0, 0>>, <<1200, 800>>)

\* C5 as stated: when reach_on_streets is invoked and the oracle's waypoint
\* is not-a-number in either coordinate, the waypoint followed is the current
\* position and the position of the device is unchanged by the round.
C5_Original ==
    Invoked /\ PathIsNaN =>
        /\ R.wp = Real(R.from)
        /\ PosAfter(L.dev) = L.posBefore

\* C5 amended: when reach_on_streets is invoked and the oracle's waypoint is
\* not-a-number in either coordinate, the waypoint followed is the position
\* the device has at the invocation and no movement is commanded; the
\* position is unchanged by the round unless it is the first round of a
\* leader, which snaps to the street before the invocation.
C5_NoMoveOnNaN ==
    Invoked /\ PathIsNaN =>
        /\ R.wp = Real(R.from)
        /\ R.from = pos[L.dev]
        /\ vel[L.dev] = <<0, 0>>
        /\ PosAfter(L.dev) = R.from
        /\ (L.wasStarted \/ L.policy = "follower" => PosAfter(L.dev) = L.posBefore)

\* C5 witness: a path with one not-a-number coordinate that would otherwise
\* have moved the device.
C5_Witness ==
    /\ Invoked /\ ~R.path.nan0 /\ R.path.nan1
    /\ R.path.v # R.from /\ ~TargetOutside

\* C6: when reach_on_streets is invoked with a target outside
\* [0,1200]x[0,800], the waypoint followed is the current position whatever
\* the oracle answered.
C6_NoMoveOutside ==
    Invoked /\ TargetOutside => R.wp = Real(R.from) /\ R.from = pos[L.dev]

\* C6 witness: a target outside the area with a valid path leading elsewhere.
C6_Witness ==
    Invoked /\ TargetOutside /\ ~PathIsNaN /\ R.path.v # R.from

\* C7 as stated: in every round of every device, the first included, a
\* target outside the area or a degenerate waypoint leaves the position
\* after the round equal to the position before it.
C7_Original ==
    Ran /\ (TargetOutside \/ (L.reach # None /\ PathIsNaN)) =>
        PosAfter(L.dev) = L.posBefore

\* C7 amended: in every round of a device but its first, a target outside the
\* area or a degenerate waypoint leaves the position after the round equal
\* to the position before it.
C7_NoMoveOnFailure ==
    Ran /\ L.wasStarted /\ (TargetOutside \/ (L.reach # None /\ PathIsNaN)) =>
        /\ Invoked
        /\ pos[L.dev] = L.posBefore
        /\ PosAfter(L.dev) = L.posBefore

\* C7 witness: a later round of a follower whose target is outside the area
\* while the oracle answers a valid path leading elsewhere.
C7_Witness ==
    /\ Invoked /\ L.wasStarted /\ L.policy = "follower"
    /\ TargetOutside /\ ~PathIsNaN /\ R.path.v # R.from
    /\ PosAfter(L.dev) = L.posBefore

\* C8: in a round of a leader after its first, a returned distance greater
\* than max_v * period keeps the target: the target held in the next round is
\* the target held in this round.
C8_Retention ==
    Invoked /\ L.policy = "leader" /\ L.wasStarted /\ R.dist > speed[L.dev] * period =>
        /\ L.prevTarget # None
        /\ targetSlot[L.dev] = L.prevTarget

\* C8 witness: a leader kept its target although the round sampled another.
C8_Witness ==
    /\ Invoked /\ L.policy = "leader" /\ L.wasStarted
    /\ R.dist > speed[L.dev] * period
    /\ L.prevTarget # Some(L.sample)

C10_Original ==
    Ran /\ L.policy = "leader" => targetSlot[L.dev] = Some(L.target)

\* C10 amended: in every round of a leader reach_on_streets is invoked first,
\* with the target held at the start of the round (the sample of the round in
\* the first round), and the target is kept or replaced afterwards, from the
\* distance returned; the target held at the end of the round differs from
\* the target pursued only when the pursued one was replaced by the sample.
C10_PursueThenDecide ==
    Ran /\ L.policy = "leader" =>
        /\ Invoked
        /\ Some(L.target) = (IF L.wasStarted THEN L.prevTarget ELSE Some(L.sample))
        /\ targetSlot[L.dev] # Some(L.target) =>
              /\ R.dist <= speed[L.dev] * period
              /\ targetSlot[L.dev] = Some(L.sample)

\* C10 witness: a leader ends a round holding a target it did not pursue.
C10_Witness ==
    Invoked /\ L.policy = "leader" /\ targetSlot[L.dev] # Some(L.target)

\* C11: in every round in which a device is not in its first active round,
\* the distance between its position before the round and its position after
\* it is at most maxSpeed * period; only a first round may move it further.
C11_VelocityCap ==
    Ran /\ L.wasStarted =>
        /\ pos[L.dev] = L.posBefore
        /\ Dist2(L.posBefore, PosAfter(L.dev))
               <= (speed[L.dev] * period) * (speed[L.dev] * period)

\* C11 witness: a device moved by exactly maxSpeed * period in a round that
\* was not its first.
C11_Witness ==
    /\ Ran /\ L.wasStarted /\ speed[L.dev] > 0
    /\ Dist2(L.posBefore, PosAfter(L.dev))
           = (speed[L.dev] * period) * (speed[L.dev] * period)

\* C12: the first active round of a follower sets its position to exactly
\* closestWalkablePoint(leaderPosition + personalOffset) and does not invoke
\* reach_on_streets; every later round invokes reach_on_streets once, towards
\* leaderPosition + personalOffset, and does not set the position.
C12_FollowerMachine ==
    Ran /\ L.policy = "follower" =>
        /\ L.first <=> ~L.wasStarted
        /\ L.target = VAdd(L.leaderPos[1], L.offset[1])
        /\ ~L.wasStarted =>
              /\ L.reach = None
              /\ pos[L.dev] = closest_space(VAdd(L.leaderPos[1], L.offset[1]))
              /\ vel[L.dev] = make_vec(0, 0)
        /\ L.wasStarted =>
              /\ L.reach # None
              /\ R.from = L.posBefore
              /\ R.to = closest_space(VAdd(L.leaderPos[1], L.offset[1]))
              /\ vel[L.dev] = R.vel
              /\ pos[L.dev] = L.posBefore

\* C12 witness: a follower with a non-zero offset, placed by its first round
\* away from where it was spawned, has walked in a later round.
C12_Witness ==
    /\ Ran /\ L.policy = "follower" /\ L.wasStarted /\ L.reach # None
    /\ L.offset[1] # make_vec(0, 0)
    /\ L.posBefore \notin rectangle_d
    /\ vel[L.dev] # make_vec(0, 0)

\* C13: the position of a leader is snapped to closestWalkablePoint(current
\* position) in its first active round and in no later round; every round,
\* the first included, invokes reach_on_streets once, from the position the
\* leader has after the snap.
C13_LeaderMachine ==
    Ran /\ L.policy = "leader" =>
        /\ L.first <=> ~L.wasStarted
        /\ L.reach # None
        /\ R.from = pos[L.dev]
        /\ vel[L.dev] = R.vel
        /\ L.first => pos[L.dev] = closest_space(L.posBefore)
        /\ ~L.first => pos[L.dev] = L.posBefore

\* C13 witness: the first round of a leader moved it to the closest walkable
\* point and then invoked reach_on_streets from there.
C13_Witness ==
    /\ Ran /\ L.policy = "leader" /\ ~L.wasStarted /\ L.reach # None
    /\ pos[L.dev] # L.posBefore
    /\ R.from = closest_space(L.posBefore)

\* C14: every device decides a round from the values committed at the end of
\* the previous round: the leader position a follower uses to form its
\* target is the position the leader had at the end of the previous round,
\* never one the leader wrote in the current round, in whatever order the
\* devices of the round are executed.
C14_RoundIsolation ==
    Ran /\ L.policy = "follower" =>
        L.leaderPos = Some(committed[L.leader])

\* C15: a round executed by device d changes only the state of d (its
\* firstRound, currentTarget and personalOffset, its debug text, its position
\* and velocity); the round state and the position of every other device,
\* the leader of d included, are left unchanged.
C15_Ownership ==
    [][\A d \in ran' \ ran : \A e \in Devices \ {d} :
          /\ pos'[e] = pos[e]
          /\ vel'[e] = vel[e]
          /\ firstSlot'[e] = firstSlot[e]
          /\ targetSlot'[e] = targetSlot[e]
          /\ offsetSlot'[e] = offsetSlot[e]
          /\ speed'[e] = speed[e]
          /\ radius'[e] = radius[e]]_vars

\* C15 witness: a follower executed its first round, which moved it, after
\* its leader had executed a round and holds a target and a velocity.
C15_Witness ==
    /\ Ran /\ L.policy = "follower" /\ ~L.wasStarted
    /\ pos[L.dev] # L.posBefore
    /\ L.leader \in ran
    /\ targetSlot[L.leader] # None
    /\ vel[L.leader] # make_vec(0, 0)

\* C16: with group radius 0 the personal offset of every follower is the
\* zero vector, so in every round the target of the follower is the leader
\* position it looked up in that round.
C16_ZeroRadius ==
    Ran /\ L.policy = "follower" /\ radius[L.dev] = 0 =>
        /\ L.offset = Some(make_vec(0, 0))
        /\ offsetSlot[L.dev] = Some(make_vec(0, 0))
        /\ L.target = L.leaderPos[1]
        /\ L.reach # None => R.to = closest_space(L.leaderPos[1])

\* C16 witness: a follower of a group of radius 0 walked towards a leader
\* that is away from the origin and from the follower.
C16_Witness ==
    /\ Ran /\ L.policy = "follower" /\ radius[L.dev] = 0 /\ L.reach # None
    /\ L.leaderPos[1] # make_vec(0, 0)
    /\ L.leaderPos[1] # L.posBefore
    /\ L.target = L.leaderPos[1]

C20_BlockedLeaderRetargets ==
    Invoked /\ L.policy = "leader" /\ L.wasStarted /\ PathIsNaN =>
        /\ L.target = L.prevTarget[1]
        /\ R.dist = 0
        /\ R.dist <= speed[L.dev] * period
        /\ targetSlot[L.dev] = Some(L.sample)

\* C20 witness: a leader whose path to a far target was degenerate in a
\* round after its first has replaced it by a different, fresh target.
C20_Witness ==
    /\ Invoked /\ L.policy = "leader" /\ L.wasStarted /\ PathIsNaN
    /\ norm(VSub(R.to, R.from)) > speed[L.dev] * period
    /\ targetSlot[L.dev] = Some(L.sample)
    /\ L.sample # L.target

\* C18: a spawn_group configuration is accepted only if group_id >= 0 and
\* 1 <= group_size <= 99; a configuration with a negative group id or a size
\* outside 1..99 is rejected when it is built, and no device of it is ever
\* spawned.
C18_ConfigurationPrecondition ==
    /\ built = Some(TRUE) => group_id >= 0 /\ 1 <= group_size /\ group_size <= 99
    /\ group_id < 0 \/ group_size < 1 \/ group_size > 99 =>
          /\ built \in {None, Some(FALSE)}
          /\ spawned = <<>>

\* C18 witness: a configuration of 100 devices with a valid group id has been
\* built and rejected.
C18_Witness ==
    /\ built = Some(FALSE)
    /\ group_id >= 0
    /\ group_size = 100
    /\ spawned = <<>>

\* C17 as stated: for every key, a round run under switcher invokes the
\* decision logic once and leaves the persisted state and the movement that
\* the same round run directly leaves.
C17_Original ==
    [][\A d \in ran' \ ran :
          group_walk_on(d, firstSlot[d], targetSlot[d], offsetSlot[d])]_vars

\* C17 amended: a round run under switcher invokes the decision logic once;
\* it leaves the persisted state and the movement that the same round run
\* directly leaves if it is the first round of the device or the key is the
\* key of the previous round of the device, and otherwise those of a first
\* active round, the values persisted under the other key not being seen.
C17_SwitcherPassThrough ==
    [][\A d \in ran' \ ran :
          IF d \notin started \/ keyOf'[d] = keyOf[d]
          THEN group_walk_on(d, firstSlot[d], targetSlot[d], offsetSlot[d])
          ELSE group_walk_on(d, None, None, None)]_vars

\* C17 witness: a device has run a round after its first under the key of
\* its previous round, and kept what it had persisted.
C17_Witness ==
    /\ Ran /\ L.wasStarted /\ ~L.first
    /\ keyOf[L.dev] # None
    /\ L.policy = "follower"
    /\ L.reach # None

\* C22: the target a leader holds always lies inside the rectangle
\* [0,1200]x[0,800], so a round of a leader never takes the out-of-area
\* fallback of reach_on_streets; only the target of a follower, the leader
\* position plus the offset, can lie outside.
C22_LeaderTargetInside ==
    /\ \A d \in Devices :
          targetSlot[d] # None =>
              InRect(targetSlot[d][1], make_vec(0, 0), make_vec(1200, 800))
    /\ Ran /\ L.policy = "leader" =>
          /\ InRect(L.sample, make_vec(0, 0), make_vec(1200, 800))
          /\ InRect(L.target, make_vec(0, 0), make_vec(1200, 800))
          /\ ~OutOfArea(L.target)
          /\ ~PathIsNaN => R.wp = R.path
    /\ Ran /\ TargetOutside => L.policy = "follower"

\* C22 witness: a leader pursued a target on the corner (1200,800) of the
\* area, and moved towards the waypoint of the oracle.
C22_Witness ==
    /\ Invoked /\ L.policy = "leader" /\ ~PathIsNaN
    /\ L.target = make_vec(1200, 800)
    /\ R.wp = R.path
    /\ vel[L.dev] # make_vec(0, 0)

\* C23: an accepted spawn_group with group id g and size s creates the
\* identifiers 100*g, 100*g+1, ..., 100*g+s-1 in that order and no other:
\* the leader 100*g is created first, so it exists whenever a follower of the
\* group does, every member derives the leader 100*g, and every identifier
\* lies in the block of 100 of g, which no group of another id shares.
C23_SpawnedIdentifiers ==
    /\ spawned # <<>> => built = Some(TRUE)
    /\ Len(spawned) <= group_size \/ spawned = <<>>
    /\ \A k \in 1..Len(spawned) :
          /\ spawned[k] = 100 * group_id + (k - 1)
          /\ spawned[1] = 100 * group_id
          /\ leader_of(spawned[k]) = 100 * group_id
          /\ leader_of(spawned[k]) = spawned[1]
          /\ spawned[k] \div 100 = group_id
          /\ \A h \in 0..MaxGroupId : \A j \in 0..98 :
                h # group_id => spawned[k] # 100 * h + j

\* C23 witness: a group of 99 devices with a non-zero group id has been
\* spawned completely.
C23_Witness ==
    /\ built = Some(TRUE)
    /\ group_id > 0
    /\ group_size = 99
    /\ Len(spawned) = group_size
    /\ spawned[99] = 100 * group_id + 98

\* C24: in the first active round of a leader the target pursued and the
\* target persisted for the next round are both the target sampled in that
\* round, whatever distance reach_on_streets returns; a target other than the
\* first sample is therefore held at the end of the second round at the
\* earliest.
C24_FirstLeaderRound ==
    Ran /\ L.policy = "leader" /\ ~L.wasStarted =>
        /\ L.prevTarget = None
        /\ L.target = L.sample
        /\ R.to = closest_space(L.sample)
        /\ targetSlot[L.dev] = Some(L.sample)

\* C24 witness: the first round of a leader ended further than one step
\* from its waypoint, and persisted the sampled target.
C24_Witness ==
    /\ Invoked /\ L.policy = "leader" /\ ~L.wasStarted
    /\ R.dist > speed[L.dev] * period
    /\ L.sample # make_vec(0, 0)
    /\ targetSlot[L.dev] = Some(L.sample)

====
